---- MODULE Spec2Model ----
(***************************************************************************)
(* Model of the deposit-distribution contract (src/src/lib.rs).            *)
(*                                                                         *)
(* The contract state is the contract's storage (Admin, Price, Token,      *)
(* Count, Unclaimed, one Attendee record per identity, one identity per    *)
(* u32 withdrawal id) together with the ledger of the configured token     *)
(* (balances and the allowances granted to the contract).  The token is    *)
(* the imported token contract: it rejects a transfer of a negative        *)
(* amount, or of more than the sender's balance or allowance.              *)
(*                                                                         *)
(* The host runs one call at a time and rolls a panicking call back        *)
(* completely, token transfers included, so every action is one whole call *)
(* that either commits all of its writes or none.  What a call does in a   *)
(* state is computed by the operators depositResult, attendResult and      *)
(* withdrawResult; the actions apply them.  The variable `last` records    *)
(* the most recent call: the operation and its outcome, and for a call     *)
(* that succeeded also its caller, arguments, return value and payouts.    *)
(*                                                                         *)
(* Widths: Count is a u32 and amounts are i128.  Every amount the contract *)
(* computes is bounded by the token supply held in i128 balances, and      *)
(* Count by the number of identities, so no arithmetic of the contract     *)
(* overflows before a token transfer has already failed; the integers are  *)
(* therefore left unwrapped.  Division is Rust's (truncation toward zero,  *)
(* no result for a zero divisor).                                          *)
(***************************************************************************)
EXTENDS Integers, Sequences, FiniteSets, TLC

None == "none"
Contract == "contract"

\* ---- bounds of the model ------------------------------------------------
\* Four accounts; initialize may name either of two as the administrator,
\* and the same two invoke the calls, so each call is tried by the
\* administrator and by somebody else.  Every account is minted MintAmount
\* tokens and has approved ApproveAmount of them to the contract before the
\* first call (the tests' setup and approve_deposit).
Ids == {"adm", "u1", "u2", "u3"}
AdminChoices == {"adm", "u1"}
Callers == {"adm", "u1"}
\* The ledger modelled is that of the token initialize is given; a second
\* token would only repeat every state under another name.
Tokens == {"tokA"}
MaxPrice == 3
MintAmount == 3
ApproveAmount == 2
MaxIndex == 2

\* initialize takes any i128 as the price: a negative one, zero, and
\* positive ones up to one the granted allowance does not cover.
Prices == {-1} \cup (0..MaxPrice)

\* ---- program constants ---------------------------------------------------
MaxRange == 10

\* u32 values the model calls withdraw with: the populated prefix and one
\* value past it (from 0 the range to FarIndex is MaxRange + 1 wide, from 1
\* it is MaxRange wide).
FarIndex == MaxRange + 1
RangeBounds == (0..MaxIndex) \cup {FarIndex}
\* u32 values the range check is evaluated on
U32Samples == RangeBounds \cup {MaxRange, FarIndex + 1}

VARIABLES
    admin,       \* DataKey::Admin, None while unset
    price,       \* DataKey::Price
    token,       \* DataKey::Token
    count,       \* DataKey::Count
    unclaimed,   \* DataKey::Unclaimed
    attendees,   \* storage keyed by Identifier: the Attendee structs
    index,       \* storage keyed by u32: withdrawal id -> Identifier
    balance,     \* token ledger: balance of every identity and the contract
    allowance,   \* token ledger: allowance of each identity to the contract
    last,        \* the most recent call and its outcome
    batch,       \* the current payout batch: the contract balance at its
                 \* first payout and the tokens paid out since
    mixed,       \* a deposit or attend succeeded after some payout
    deposited    \* the identities whose deposit has succeeded

vars == <<admin, price, token, count, unclaimed, attendees, index,
          balance, allowance, last, batch, mixed, deposited>>

storage == <<admin, price, token, count, unclaimed, attendees, index>>
ledger == <<balance, allowance>>
ghost == <<batch, mixed, deposited>>

Attendee(fee, attended, refunded) ==
    [fee |-> fee, attended |-> attended, refunded |-> refunded]

\* ---- storage getters ----------------------------------------------------
has_administrator == admin # None

read_administrator == admin

get_price == price

get_token == token

get_count == count

get_unclaimed == unclaimed

has_attendee(id) == id \in DOMAIN attendees

has_index(i) == i \in DOMAIN index

Abs(a) == IF a >= 0 THEN a ELSE -a

\* Mutant: a zero divisor yields a zero quotient.
checked_div_ZeroOnZero(a, b) ==
    IF b = 0 THEN [some |-> TRUE, val |-> 0]
    ELSE IF (a >= 0) = (b > 0)
         THEN [some |-> TRUE, val |-> Abs(a) \div Abs(b)]
         ELSE [some |-> TRUE, val |-> -(Abs(a) \div Abs(b))]

\* i128::checked_div: no value for a zero divisor, else the quotient
\* truncated toward zero.
checked_div(a, b) ==
    IF b = 0 THEN [some |-> FALSE]
    ELSE IF (a >= 0) = (b > 0)
         THEN [some |-> TRUE, val |-> Abs(a) \div Abs(b)]
         ELSE [some |-> TRUE, val |-> -(Abs(a) \div Abs(b))]

\* ---- token collaborator --------------------------------------------------
TransferFailed == "TransferFailed"

\* xfer_from by the contract: `from` -> contract, spending from's allowance.
\* The token rejects a negative amount, an insufficient allowance and an
\* insufficient balance.
transfer_from_account_to_contract(bal, allow, from, amount) ==
    IF amount < 0 \/ allow[from] < amount \/ bal[from] < amount
    THEN [ok |-> FALSE]
    ELSE [ok |-> TRUE,
          bal |-> [bal EXCEPT ![from] = @ - amount, ![Contract] = @ + amount],
          allow |-> [allow EXCEPT ![from] = @ - amount]]

\* Mutant: the payout is credited without checking the contract's balance.
transfer_from_contract_to_account_Unchecked(bal, to, amount) ==
    IF amount < 0
    THEN [ok |-> FALSE]
    ELSE [ok |-> TRUE,
          bal |-> [bal EXCEPT ![Contract] = @ - amount, ![to] = @ + amount]]

\* xfer by the contract: contract -> `to`.
transfer_from_contract_to_account(bal, to, amount) ==
    IF amount < 0 \/ bal[Contract] < amount
    THEN [ok |-> FALSE]
    ELSE [ok |-> TRUE,
          bal |-> [bal EXCEPT ![Contract] = @ - amount, ![to] = @ + amount]]

\* ---- the record of a call ------------------------------------------------
Ok == "ok"

Call(op, caller, args, err, ret, paid) ==
    IF err = Ok
    THEN [op |-> op, caller |-> caller, args |-> args, err |-> err,
          ret |-> ret, paid |-> paid, rolled_back |-> 0]
    ELSE [op |-> op, caller |-> None, args |-> <<>>, err |-> err,
          ret |-> 0, paid |-> <<>>, rolled_back |-> 0]

NoBatch == [open |-> FALSE, bal |-> 0, paid |-> 0]

\* some attendee has been paid
PayoutMade == \E i \in DOMAIN attendees : attendees[i].refunded

\* storage().set(key, value) on a keyed collection
Set(f, k, v) == [x \in DOMAIN f \cup {k} |-> IF x = k THEN v ELSE f[x]]

Init ==
    /\ admin = None
    /\ price = None
    /\ token = None
    /\ count = None
    /\ unclaimed = None
    /\ attendees = <<>>
    /\ index = <<>>
    /\ balance = [i \in Ids \cup {Contract} |-> IF i = Contract THEN 0 ELSE MintAmount]
    /\ allowance = [i \in Ids |-> ApproveAmount]
    /\ last = Call("none", None, <<>>, Ok, 0, <<>>)
    /\ batch = NoBatch
    /\ mixed = FALSE
    /\ deposited = {}

\* ---- initialize ----------------------------------------------------------
\* Mutant: initialize does not look for a stored administrator.
initialize_NoGuard(a, p, t) ==
    /\ admin' = a
    /\ price' = p
    /\ token' = t
    /\ unclaimed' = 0
    /\ count' = 0
    /\ last' = Call("initialize", None,
                    [admin |-> a, price |-> p, token |-> t], Ok, 0, <<>>)
    /\ UNCHANGED <<attendees, index, ledger, ghost>>

initialize(a, p, t) ==
    LET args == [admin |-> a, price |-> p, token |-> t] IN
    IF has_administrator THEN
        /\ last' = Call("initialize", None, args, "AlreadyInitialized", 0, <<>>)
        /\ UNCHANGED <<storage, ledger, ghost>>
    ELSE
        /\ admin' = a
        /\ price' = p
        /\ token' = t
        /\ unclaimed' = 0
        /\ count' = 0
        /\ last' = Call("initialize", None, args, Ok, 0, <<>>)
        /\ UNCHANGED <<attendees, index, ledger, ghost>>

\* ---- deposit -------------------------------------------------------------
\* Mutant: deposit does not look for an existing record.
depositResult_NoCheck(attendee) ==
    IF ~has_administrator THEN [err |-> "NotInitialized"]
    ELSE IF attendee = read_administrator THEN [err |-> "ForbiddenIdentity"]
    ELSE LET x == transfer_from_account_to_contract(balance, allowance,
                                                    attendee, get_price) IN
         IF ~x.ok THEN [err |-> TransferFailed]
         ELSE [err |-> Ok,
               attendees |-> Set(attendees, attendee,
                                 Attendee(get_price, FALSE, FALSE)),
               unclaimed |-> get_unclaimed + get_price,
               bal |-> x.bal, allow |-> x.allow]

depositResult(attendee) ==
    IF ~has_administrator THEN [err |-> "NotInitialized"]
    ELSE IF attendee = read_administrator THEN [err |-> "ForbiddenIdentity"]
    ELSE IF has_attendee(attendee) THEN [err |-> "AlreadyRegistered"]
    ELSE LET x == transfer_from_account_to_contract(balance, allowance,
                                                    attendee, get_price) IN
         IF ~x.ok THEN [err |-> TransferFailed]
         ELSE [err |-> Ok,
               attendees |-> Set(attendees, attendee,
                                 Attendee(get_price, FALSE, FALSE)),
               unclaimed |-> get_unclaimed + get_price,
               bal |-> x.bal, allow |-> x.allow]

deposit(caller, attendee) ==
    LET r == depositResult(attendee) IN
    /\ last' = Call("deposit", caller, [attendee |-> attendee], r.err, 0, <<>>)
    /\ IF r.err = Ok THEN
          /\ attendees' = r.attendees
          /\ unclaimed' = r.unclaimed
          /\ balance' = r.bal
          /\ allowance' = r.allow
          /\ batch' = NoBatch
          /\ mixed' = (mixed \/ PayoutMade)
          /\ deposited' = deposited \cup {attendee}
          /\ UNCHANGED <<admin, price, token, count, index>>
       ELSE UNCHANGED <<storage, ledger, ghost>>

\* ---- attend --------------------------------------------------------------
\* Mutant: the invoker is not compared with the stored administrator.
check_admin_Anyone(auth_id) == TRUE

check_admin(auth_id) == auth_id = read_administrator

\* Mutant: attend leaves Unclaimed as it was.
attendResult_KeepUnclaimed(caller, attendee) ==
    IF ~has_administrator THEN [err |-> "NotInitialized"]
    ELSE IF ~check_admin(caller) THEN [err |-> "Unauthorized"]
    ELSE IF attendee = read_administrator THEN [err |-> "ForbiddenIdentity"]
    ELSE IF ~has_attendee(attendee) THEN [err |-> "NotRegistered"]
    ELSE IF attendees[attendee].attended THEN [err |-> "AlreadyAttended"]
    ELSE [err |-> Ok,
          attendees |-> Set(attendees, attendee,
                            [attendees[attendee] EXCEPT !.attended = TRUE]),
          index |-> Set(index, get_count, attendee),
          count |-> get_count + 1,
          unclaimed |-> get_unclaimed]

\* Mutant: attend does not reject the administrator's identity.
attendResult_AdminMayAttend(caller, attendee) ==
    IF ~has_administrator THEN [err |-> "NotInitialized"]
    ELSE IF ~check_admin(caller) THEN [err |-> "Unauthorized"]
    ELSE IF ~has_attendee(attendee) THEN [err |-> "NotRegistered"]
    ELSE IF attendees[attendee].attended THEN [err |-> "AlreadyAttended"]
    ELSE [err |-> Ok,
          attendees |-> Set(attendees, attendee,
                            [attendees[attendee] EXCEPT !.attended = TRUE]),
          index |-> Set(index, get_count, attendee),
          count |-> get_count + 1,
          unclaimed |-> get_unclaimed - get_price]

\* Mutant: attend does not look at the attended flag.
attendResult_NoAttendedCheck(caller, attendee) ==
    IF ~has_administrator THEN [err |-> "NotInitialized"]
    ELSE IF ~check_admin(caller) THEN [err |-> "Unauthorized"]
    ELSE IF attendee = read_administrator THEN [err |-> "ForbiddenIdentity"]
    ELSE IF ~has_attendee(attendee) THEN [err |-> "NotRegistered"]
    ELSE [err |-> Ok,
          attendees |-> Set(attendees, attendee,
                            [attendees[attendee] EXCEPT !.attended = TRUE]),
          index |-> Set(index, get_count, attendee),
          count |-> get_count + 1,
          unclaimed |-> get_unclaimed - get_price]

\* Mutant: attend stores the attendee under Count but does not increment
\* Count.
attendResult_NoIncrement(caller, attendee) ==
    IF ~has_administrator THEN [err |-> "NotInitialized"]
    ELSE IF ~check_admin(caller) THEN [err |-> "Unauthorized"]
    ELSE IF attendee = read_administrator THEN [err |-> "ForbiddenIdentity"]
    ELSE IF ~has_attendee(attendee) THEN [err |-> "NotRegistered"]
    ELSE IF attendees[attendee].attended THEN [err |-> "AlreadyAttended"]
    ELSE [err |-> Ok,
          attendees |-> Set(attendees, attendee,
                            [attendees[attendee] EXCEPT !.attended = TRUE]),
          index |-> Set(index, get_count, attendee),
          count |-> get_count,
          unclaimed |-> get_unclaimed - get_price]

\* Mutant: the TODO of withdraw is carried out in attend, which refuses
\* once a payout has been made.
attendResult_ClosedAfterPayout(caller, attendee) ==
    IF ~has_administrator THEN [err |-> "NotInitialized"]
    ELSE IF ~check_admin(caller) THEN [err |-> "Unauthorized"]
    ELSE IF attendee = read_administrator THEN [err |-> "ForbiddenIdentity"]
    ELSE IF PayoutMade THEN [err |-> "WithdrawalStarted"]
    ELSE IF ~has_attendee(attendee) THEN [err |-> "NotRegistered"]
    ELSE IF attendees[attendee].attended THEN [err |-> "AlreadyAttended"]
    ELSE [err |-> Ok,
          attendees |-> Set(attendees, attendee,
                            [attendees[attendee] EXCEPT !.attended = TRUE]),
          index |-> Set(index, get_count, attendee),
          count |-> get_count + 1,
          unclaimed |-> get_unclaimed - get_price]

attendResult(caller, attendee) ==
    IF ~has_administrator THEN [err |-> "NotInitialized"]
    ELSE IF ~check_admin(caller) THEN [err |-> "Unauthorized"]
    ELSE IF attendee = read_administrator THEN [err |-> "ForbiddenIdentity"]
    ELSE IF ~has_attendee(attendee) THEN [err |-> "NotRegistered"]
    ELSE IF attendees[attendee].attended THEN [err |-> "AlreadyAttended"]
    ELSE [err |-> Ok,
          attendees |-> Set(attendees, attendee,
                            [attendees[attendee] EXCEPT !.attended = TRUE]),
          index |-> Set(index, get_count, attendee),
          count |-> get_count + 1,
          unclaimed |-> get_unclaimed - get_price]

attend(caller, attendee) ==
    LET r == attendResult(caller, attendee) IN
    /\ last' = Call("attend", caller, [attendee |-> attendee], r.err, 0, <<>>)
    /\ IF r.err = Ok THEN
          /\ attendees' = r.attendees
          /\ index' = r.index
          /\ count' = r.count
          /\ unclaimed' = r.unclaimed
          /\ batch' = NoBatch
          /\ mixed' = (mixed \/ PayoutMade)
          /\ UNCHANGED <<admin, price, token, ledger, deposited>>
       ELSE UNCHANGED <<storage, ledger, ghost>>

\* ---- withdraw ------------------------------------------------------------
\* Mutant: a range of exactly ten ids is rejected too.
invalid_range_OffByOne(high, low) == high < low \/ high - low >= MaxRange

\* if high < low || high - low > 10
invalid_range(high, low) == high < low \/ high - low > MaxRange

\* Mutant: the unclaimed pool is not divided among the attended.
distribution_amount_Undivided ==
    LET q == checked_div(get_unclaimed, get_count) IN
    IF q.some THEN [some |-> TRUE, val |-> get_price + get_unclaimed]
    ELSE [some |-> FALSE]

\* price + unclaimed.checked_div(withdrawal_count as i128).unwrap()
distribution_amount ==
    LET q == checked_div(get_unclaimed, get_count) IN
    IF q.some THEN [some |-> TRUE, val |-> get_price + q.val]
    ELSE [some |-> FALSE]

\* The body of `for id in low..high` for one id, on the loop state st:
\* the attendee records and balances written so far, refund_count, the
\* payouts made, and whether a transfer has failed.
\* Mutant: the payout is made but the refunded flag is not stored.
withdrawStep_NoFlag(st, id, amount) ==
    IF ~has_index(id) THEN st
    ELSE LET att == index[id]
             att_struct == st.attendees[att]
         IN  IF att_struct.refunded THEN st
             ELSE LET x == transfer_from_contract_to_account(st.bal, att, amount) IN
                  IF ~x.ok THEN [st EXCEPT !.ok = FALSE]
                  ELSE [st EXCEPT
                          !.bal = x.bal,
                          !.refund_count = @ + 1,
                          !.paid = Append(@, [to |-> att, amount |-> amount])]

\* Mutant: refund_count counts every populated id, paid now or before.
withdrawStep_CountAll(st, id, amount) ==
    IF ~has_index(id) THEN st
    ELSE LET att == index[id]
             att_struct == st.attendees[att]
         IN  IF att_struct.refunded THEN [st EXCEPT !.refund_count = @ + 1]
             ELSE LET x == transfer_from_contract_to_account(st.bal, att, amount) IN
                  IF ~x.ok THEN [st EXCEPT !.ok = FALSE]
                  ELSE [st EXCEPT
                          !.bal = x.bal,
                          !.attendees = Set(st.attendees, att,
                                            [att_struct EXCEPT !.refunded = TRUE]),
                          !.refund_count = @ + 1,
                          !.paid = Append(@, [to |-> att, amount |-> amount])]

\* Mutant: the loop body does not look at the refunded flag.
withdrawStep_PayAgain(st, id, amount) ==
    IF ~has_index(id) THEN st
    ELSE LET att == index[id]
             att_struct == st.attendees[att]
             x == transfer_from_contract_to_account(st.bal, att, amount)
         IN  IF ~x.ok THEN [st EXCEPT !.ok = FALSE]
             ELSE [st EXCEPT
                     !.bal = x.bal,
                     !.attendees = Set(st.attendees, att,
                                       [att_struct EXCEPT !.refunded = TRUE]),
                     !.refund_count = @ + 1,
                     !.paid = Append(@, [to |-> att, amount |-> amount])]

withdrawStep(st, id, amount) ==
    IF ~has_index(id) THEN st
    ELSE LET att == index[id]
             att_struct == st.attendees[att]
         IN  IF att_struct.refunded THEN st
             ELSE LET x == transfer_from_contract_to_account(st.bal, att, amount) IN
                  IF ~x.ok THEN [st EXCEPT !.ok = FALSE]
                  ELSE [st EXCEPT
                          !.bal = x.bal,
                          !.attendees = Set(st.attendees, att,
                                            [att_struct EXCEPT !.refunded = TRUE]),
                          !.refund_count = @ + 1,
                          !.paid = Append(@, [to |-> att, amount |-> amount])]

\* Mutant: the loop runs over low..=high.
RECURSIVE withdrawLoop_Inclusive(_, _, _, _)
withdrawLoop_Inclusive(st, id, high, amount) ==
    IF id > high \/ ~st.ok THEN st
    ELSE withdrawLoop_Inclusive(withdrawStep(st, id, amount), id + 1, high, amount)

RECURSIVE withdrawLoop(_, _, _, _)
withdrawLoop(st, id, high, amount) ==
    IF id >= high \/ ~st.ok THEN st
    ELSE withdrawLoop(withdrawStep(st, id, amount), id + 1, high, amount)

withdrawResult(caller, high, low) ==
    IF ~has_administrator THEN [err |-> "NotInitialized"]
    ELSE IF ~check_admin(caller) THEN [err |-> "Unauthorized"]
    ELSE IF invalid_range(high, low) THEN [err |-> "InvalidRange"]
    ELSE IF ~distribution_amount.some THEN [err |-> "DivisionByZero"]
    ELSE LET st == withdrawLoop([ok |-> TRUE, attendees |-> attendees,
                                 bal |-> balance, refund_count |-> 0,
                                 paid |-> <<>>],
                                low, high, distribution_amount.val) IN
         IF ~st.ok THEN [err |-> TransferFailed, rolled_back |-> st.refund_count]
         ELSE [err |-> Ok, attendees |-> st.attendees, bal |-> st.bal,
               ret |-> st.refund_count, paid |-> st.paid]

RECURSIVE SumPaid(_)
SumPaid(paid) ==
    IF paid = <<>> THEN 0 ELSE Head(paid).amount + SumPaid(Tail(paid))

\* Mutant: a failed payout ends the call but the payouts and flags of the
\* ids before it stay.
withdraw_CommitPartial(caller, high, low) ==
    LET r == withdrawResult(caller, high, low) IN
    IF r.err = Ok THEN
        /\ last' = Call("withdraw", caller, [high |-> high, low |-> low],
                        Ok, r.ret, r.paid)
        /\ attendees' = r.attendees
        /\ balance' = r.bal
        /\ batch' = IF r.ret = 0 THEN batch
                    ELSE IF batch.open
                         THEN [batch EXCEPT !.paid = @ + SumPaid(r.paid)]
                         ELSE [open |-> TRUE, bal |-> balance[Contract],
                               paid |-> SumPaid(r.paid)]
        /\ UNCHANGED <<admin, price, token, count, unclaimed, index,
                       allowance, mixed, deposited>>
    ELSE IF r.err = TransferFailed THEN
        LET st == withdrawLoop([ok |-> TRUE, attendees |-> attendees,
                                bal |-> balance, refund_count |-> 0,
                                paid |-> <<>>],
                               low, high, distribution_amount.val) IN
        /\ last' = [Call("withdraw", caller, [high |-> high, low |-> low],
                         r.err, 0, <<>>)
                      EXCEPT !.rolled_back = r.rolled_back]
        /\ attendees' = st.attendees
        /\ balance' = st.bal
        /\ UNCHANGED <<admin, price, token, count, unclaimed, index,
                       allowance, ghost>>
    ELSE
        /\ last' = Call("withdraw", caller, [high |-> high, low |-> low],
                        r.err, 0, <<>>)
        /\ UNCHANGED <<storage, ledger, ghost>>

withdraw(caller, high, low) ==
    LET r == withdrawResult(caller, high, low) IN
    IF r.err = Ok THEN
        /\ last' = Call("withdraw", caller, [high |-> high, low |-> low],
                        Ok, r.ret, r.paid)
        /\ attendees' = r.attendees
        /\ balance' = r.bal
        /\ batch' = IF r.ret = 0 THEN batch
                    ELSE IF batch.open
                         THEN [batch EXCEPT !.paid = @ + SumPaid(r.paid)]
                         ELSE [open |-> TRUE, bal |-> balance[Contract],
                               paid |-> SumPaid(r.paid)]
        /\ UNCHANGED <<admin, price, token, count, unclaimed, index,
                       allowance, mixed, deposited>>
    ELSE
        \* the panic undoes the payouts and flags of the ids before the
        \* failing one; last keeps how many there were
        /\ last' = [Call("withdraw", caller, [high |-> high, low |-> low],
                         r.err, 0, <<>>)
                      EXCEPT !.rolled_back =
                         IF r.err = TransferFailed THEN r.rolled_back ELSE 0]
        /\ UNCHANGED <<storage, ledger, ghost>>

Next ==
    \/ \E a \in AdminChoices, p \in Prices, t \in Tokens : initialize(a, p, t)
    \/ \E c \in Callers, a \in Ids : deposit(c, a)
    \/ \E c \in Callers, a \in Ids : attend(c, a)
    \/ \E c \in Callers, h \in RangeBounds, l \in RangeBounds : withdraw(c, h, l)

Spec == Init /\ [][Next]_vars

(***************************************************************************)
(* Properties                                                              *)
(***************************************************************************)
Registered == DOMAIN attendees

\* the populated withdrawal ids of the half-open range [low, high)
InRange(high, low) == {i \in DOMAIN index : low <= i /\ i < high}

\* the contract's own state and the token ledger
contractState == <<storage, ledger>>

RECURSIVE SumFees(_)
SumFees(S) ==
    IF S = {} THEN 0
    ELSE LET i == CHOOSE x \in S : TRUE IN attendees[i].fee + SumFees(S \ {i})

\* C1: a withdraw that succeeded and is called again at once by the same
\* caller with the same bounds succeeds, returns 0, makes no transfer and
\* leaves every attendee record and every token balance as it was.
C1_WithdrawIdempotent ==
    [][(/\ last.op = "withdraw"
        /\ last.err = Ok
        /\ withdraw(last.caller, last.args.high, last.args.low))
       => (/\ last'.err = Ok
           /\ last'.ret = 0
           /\ last'.paid = <<>>
           /\ attendees' = attendees
           /\ balance' = balance
           /\ allowance' = allowance)]_vars

\* a withdraw that found an attendee of its range already paid, and paid
\* nobody
C1_Witness ==
    /\ last.op = "withdraw"
    /\ last.err = Ok
    /\ last.ret = 0
    /\ \E i \in InRange(last.args.high, last.args.low) :
          attendees[index[i]].refunded

\* C2: between calls Unclaimed is the sum of the stored fees of the
\* registered attendees whose attended flag is false.
C2_UnclaimedIsUnattendedFees ==
    has_administrator =>
        unclaimed = SumFees({i \in Registered : ~attendees[i].attended})

\* an attended and an unattended attendee, after a payout
C2_Witness ==
    /\ \E i \in Registered : attendees[i].attended /\ attendees[i].refunded
    /\ \E i \in Registered : ~attendees[i].attended
    /\ unclaimed > 0

Min(a, b) == IF a <= b THEN a ELSE b

\* what identity i has received from the contract: its balance, less what
\* was minted to it, plus the fee it paid in
Received(i) == balance[i] - MintAmount + attendees[i].fee

\* C4: every payout of a withdraw call is Price + (Unclaimed div Count),
\* Unclaimed and Count being those of the call's start (withdraw does not
\* write them); an attendee not paid yet has received nothing, so one that
\* never attended never receives anything; and while no deposit or attend
\* has followed a payout, each paid attendee has received
\* P + ((n - k) * P div k), n the depositors and k the attended.
C4_PayoutAmount ==
    /\ (last.op = "withdraw" /\ last.err = Ok) =>
           \A j \in 1..Len(last.paid) :
               last.paid[j].amount = price + (unclaimed \div count)
    /\ \A i \in Registered : ~attendees[i].refunded => Received(i) = 0
    /\ ~mixed =>
           \A i \in Registered : attendees[i].refunded =>
               Received(i) = price +
                   (((Cardinality(Registered) - count) * price) \div count)

\* the worked example at a hundredth of its scale: price 2, three
\* depositors, two attended, a payout of 2 + 2 div 2 = 3
C4_Witness ==
    /\ last.op = "withdraw"
    /\ last.err = Ok
    /\ price = 2
    /\ Cardinality(Registered) = 3
    /\ count = 2
    /\ ~mixed
    /\ \E j \in 1..Len(last.paid) : last.paid[j].amount = 3
    /\ \E i \in Registered : ~attendees[i].attended /\ Received(i) = 0

\* C5: a successful withdraw over [low, high) returns the number of ids i,
\* low <= i < high, below Count whose attendee had refunded = false when the
\* call started, and pays exactly those; ids from Count on are skipped.
\* An admin call over a valid range does what the call over the range cut
\* off at Count does.
C5_RefundCount ==
    /\ [][(last'.op = "withdraw" /\ last'.err = Ok) =>
           LET due == {i \in last'.args.low .. (last'.args.high - 1) :
                          i < count /\ ~attendees[index[i]].refunded}
           IN  /\ last'.ret = Cardinality(due)
               /\ Len(last'.paid) = Cardinality(due)
               /\ {last'.paid[j].to : j \in 1..Len(last'.paid)}
                     = {index[i] : i \in due}]_vars
    /\ [](has_administrator =>
            \A h \in U32Samples, l \in U32Samples :
                (l <= h /\ h - l <= 10) =>
                    withdrawResult(admin, h, l)
                      = withdrawResult(admin, Min(h, count), Min(l, count)))

\* a successful withdraw whose range reaches past the populated prefix and
\* covers an attendee paid before and one paid now
C5_Witness ==
    /\ last.op = "withdraw"
    /\ last.err = Ok
    /\ last.args.high > count
    /\ last.ret = 1
    /\ Cardinality(InRange(last.args.high, last.args.low)) = 2

\* C6: in every initialized state an admin withdraw fails with
\* InvalidRange exactly for the bounds with high < low or high - low > 10
\* (whatever Count is), and a call that fails so changes nothing.
C6_RangeValidity ==
    /\ [](has_administrator =>
            \A h \in U32Samples, l \in U32Samples :
                (withdrawResult(admin, h, l).err = "InvalidRange")
                    <=> (h < l \/ h - l > 10))
    /\ [][(last'.op = "withdraw" /\ last'.err = "InvalidRange")
            => UNCHANGED contractState]_vars

\* a withdraw rejected for its range while nobody has attended
C6_Witness ==
    /\ last.op = "withdraw"
    /\ last.err = "InvalidRange"
    /\ count = 0
    /\ Registered # {}
\* C7 as claimed: in every initialized state an admin withdraw with
\* low = 0, high = 0 returns 0.
C7_Original ==
    [][(has_administrator /\ withdraw(admin, 0, 0))
         => (last'.err = Ok /\ last'.ret = 0)]_vars

\* C7 amended: in every initialized state with Count > 0 an admin withdraw
\* with low = 0, high = 0 returns 0, makes no transfer and changes no
\* record; with Count = 0 it aborts on the division by zero.
C7_EmptyRange ==
    /\ has_administrator =>
          LET r == withdrawResult(admin, 0, 0) IN
          IF count = 0 THEN r.err = "DivisionByZero"
          ELSE /\ r.err = Ok
               /\ r.ret = 0
               /\ r.paid = <<>>
               /\ r.bal = balance
               /\ r.attendees = attendees
    /\ (last.op = "withdraw" /\ last.err = Ok
            /\ last.args.high = 0 /\ last.args.low = 0)
          => (last.ret = 0 /\ last.paid = <<>>)

\* withdraw(0, 0) has returned while an attended attendee was still unpaid
C7_Witness ==
    /\ last.op = "withdraw"
    /\ last.err = Ok
    /\ last.args.high = 0
    /\ last.args.low = 0
    /\ \E i \in Registered : attendees[i].attended /\ ~attendees[i].refunded

\* C8: while Count = 0 an admin withdraw over a valid range aborts on the
\* division by zero; the aborted call pays nobody and changes no state.
C8_NoAttendees ==
    /\ [](has_administrator /\ count = 0 =>
            \A h \in U32Samples, l \in U32Samples :
                (l <= h /\ h - l <= 10) =>
                    withdrawResult(admin, h, l).err = "DivisionByZero")
    /\ [][(last'.op = "withdraw" /\ last'.err = "DivisionByZero")
            => (count = 0 /\ UNCHANGED contractState)]_vars

\* a withdraw aborted on the division while deposits wait in the pool
C8_Witness ==
    /\ last.op = "withdraw"
    /\ last.err = "DivisionByZero"
    /\ count = 0
    /\ unclaimed > 0

\* C9: once deposit(i) has succeeded for an identity i other than the
\* administrator, deposit(i) fails with AlreadyRegistered in every later
\* state; the failed call changes no record, pool or balance, and i has
\* been debited its fee once.
C9_RegisterOnce ==
    /\ [](\A i \in deposited :
            /\ i # admin
            /\ depositResult(i).err = "AlreadyRegistered"
            /\ has_attendee(i)
            /\ Received(i) >= 0)
    /\ [][(last'.op = "deposit" /\ last'.err = "AlreadyRegistered")
            => UNCHANGED contractState]_vars

\* a second deposit rejected after the attendee attended and was paid
C9_Witness ==
    /\ last.op = "deposit"
    /\ last.err = "AlreadyRegistered"
    /\ \E i \in deposited : attendees[i].refunded
    /\ \A i \in Ids \ {admin} : i \in deposited

\* C10 as claimed: deposit(admin) and attend(admin) fail with
\* ForbiddenIdentity for every caller in every initialized state.
C10_Original ==
    [][(/\ has_administrator
        /\ \E c \in Callers : deposit(c, admin) \/ attend(c, admin))
         => last'.err = "ForbiddenIdentity"]_vars

\* C10 amended: in every initialized state deposit(admin) fails with
\* ForbiddenIdentity whoever calls; attend(admin) fails with
\* ForbiddenIdentity when the administrator calls and with Unauthorized
\* when anyone else does; the administrator has no attendee record and
\* holds no withdrawal id.
C10_AdminForbidden ==
    has_administrator =>
        /\ depositResult(admin).err = "ForbiddenIdentity"
        /\ \A c \in Callers :
              attendResult(c, admin).err =
                  IF c = admin THEN "ForbiddenIdentity" ELSE "Unauthorized"
        /\ admin \notin Registered
        /\ \A i \in DOMAIN index : index[i] # admin

\* the administrator's attend of its own identity was rejected
C10_Witness ==
    /\ last.op = "attend"
    /\ last.err = "ForbiddenIdentity"
    /\ Registered # {}

\* the identities a successful attend has given a sequence index
Indexed == {index[k] : k \in DOMAIN index}

\* C11: for an administrator caller and an identity i other than the
\* administrator, attend(i) fails with NotRegistered while no deposit(i) has
\* succeeded, and fails with AlreadyAttended once an attend(i) has succeeded;
\* a call failing in either way leaves Count, the index mapping and the
\* unclaimed pool (indeed all storage and balances) unchanged.
C11_AttendErrors ==
    /\ [](has_administrator =>
            \A i \in Ids \ {admin} :
               /\ i \notin deposited =>
                     attendResult(admin, i).err = "NotRegistered"
               /\ i \in Indexed =>
                     attendResult(admin, i).err = "AlreadyAttended")
    /\ [][(last'.op = "attend"
           /\ last'.err \in {"NotRegistered", "AlreadyAttended"})
          => UNCHANGED <<count, index, unclaimed, contractState>>]_vars

\* a second attend for an attended identity has just been rejected, with a
\* never-registered identity still around
C11_Witness ==
    /\ last.op = "attend"
    /\ last.err = "AlreadyAttended"
    /\ Indexed # {}
    /\ \E i \in Ids \ {admin} : i \notin deposited


\* the attendees whose attended flag is set, resp. who have been paid
AttendedSet == {i \in DOMAIN attendees : attendees[i].attended}
RefundedSet == {i \in DOMAIN attendees : attendees[i].refunded}

\* C12: once an administrator is configured, every attend and every withdraw
\* whose caller is not that administrator fails with Unauthorized whatever
\* its arguments (so before the identity, registration, range and division
\* checks) and changes nothing; attended flags, sequence indices, Count and
\* payouts change only in a step made by a call of the administrator.
C12_AdminGuard ==
    /\ [](has_administrator =>
            \A c \in Ids \ {admin} :
               /\ \A i \in Ids : attendResult(c, i).err = "Unauthorized"
               /\ \A h \in U32Samples, l \in U32Samples :
                     withdrawResult(c, h, l).err = "Unauthorized")
    /\ [][last'.err = "Unauthorized" => UNCHANGED contractState]_vars
    /\ [][(\/ AttendedSet' # AttendedSet
           \/ RefundedSet' # RefundedSet
           \/ index' # index
           \/ (has_administrator /\ count' # count)
           \/ balance'[Contract] < balance[Contract])
          => (last'.op \in {"attend", "withdraw"} /\ last'.caller = admin)]_vars

\* a withdraw by somebody else has just been refused although an attended
\* attendee was waiting for a payout the contract could make
C12_Witness ==
    /\ last.op = "withdraw"
    /\ last.err = "Unauthorized"
    /\ AttendedSet \ RefundedSet # {}
    /\ withdrawResult(admin, MaxRange, 0).err = Ok
    /\ withdrawResult(admin, MaxRange, 0).ret > 0


\* C13: initialize succeeds only while no administrator is stored; every
\* later initialize fails with AlreadyInitialized and changes nothing, so
\* the administrator, the price and the token are never changed once set
\* and Count and the unclaimed pool are never reset.
C13_InitializeOnce ==
    /\ [][(last'.op = "initialize" /\ last'.err = Ok)
          => (~has_administrator /\ admin' # None)]_vars
    /\ [][(has_administrator
           /\ \E a \in AdminChoices, p \in Prices, t \in Tokens :
                 initialize(a, p, t))
          => (last'.err = "AlreadyInitialized" /\ UNCHANGED contractState)]_vars
    /\ [][has_administrator
          => (admin' = admin /\ price' = price /\ token' = token)]_vars

\* a second initialize has just been refused while attendances and an
\* unclaimed pool were on record
C13_Witness ==
    /\ last.op = "initialize"
    /\ last.err = "AlreadyInitialized"
    /\ count > 0
    /\ unclaimed > 0


\* C14: a call that fails in a token transfer commits nothing.  A deposit
\* whose debit fails leaves no attendee record and the unclaimed pool as it
\* was, so every record on file belongs to a deposit that was debited; a
\* withdraw whose payout fails for some id leaves every refunded flag and
\* every balance as before the call, the payouts and flags of the ids
\* handled earlier in that call included.
C14_AllOrNothing ==
    /\ [][last'.err = TransferFailed
          => (/\ UNCHANGED contractState
              /\ attendees' = attendees
              /\ unclaimed' = unclaimed
              /\ RefundedSet' = RefundedSet
              /\ balance' = balance)]_vars
    /\ [](Registered \subseteq deposited)

\* a withdraw has just failed at a payout after an earlier id of the same
\* call had been paid, and that attendee is still unpaid
C14_Witness ==
    /\ last.op = "withdraw"
    /\ last.err = TransferFailed
    /\ last.rolled_back > 0
    /\ Cardinality(AttendedSet \ RefundedSet) >= 2


\* the payouts of one call that went to identity i
PaidTo(paid, i) == {k \in DOMAIN paid : paid[k].to = i}

\* C15: an attendee record only moves forward through Registered
\* (attended = FALSE, refunded = FALSE), Attended (TRUE, FALSE) and Paid
\* (TRUE, TRUE): no state has attended = FALSE with refunded = TRUE, a
\* record is never removed, its fee never changes, a flag once set stays
\* set, and an identity is paid at most once, in the very step that takes
\* it from Attended to Paid.
C15_Lifecycle ==
    /\ [](\A i \in Registered :
             attendees[i].refunded => attendees[i].attended)
    /\ [][\A i \in Registered :
             /\ i \in Registered'
             /\ attendees'[i].fee = attendees[i].fee
             /\ attendees[i].attended => attendees'[i].attended
             /\ attendees[i].refunded => attendees'[i].refunded]_vars
    /\ [][\A i \in Ids :
             LET n == Cardinality(PaidTo(last'.paid, i)) IN
             /\ n <= 1
             /\ (n = 1) <=> (i \in RefundedSet' \ RefundedSet)
             /\ (n = 1) => (i \in AttendedSet \ RefundedSet)
             /\ (n = 0 /\ last'.op = "withdraw") => balance'[i] = balance[i]]_vars

\* the three stages side by side: one attendee only registered, one
\* attended and unpaid, one paid
C15_Witness ==
    /\ Registered \ AttendedSet # {}
    /\ AttendedSet \ RefundedSet # {}
    /\ RefundedSet # {}


\* C16: once initialized, the index mapping is defined exactly on
\* 0 .. Count-1, is injective, and its range is the set of attendees whose
\* attended flag is set; a successful attend stores its attendee under the
\* old Count and increases Count by one (so the k-th successful attend gets
\* index k-1), no other step changes Count, and an entry once written is
\* never changed or removed.
C16_IndexBijection ==
    /\ [](has_administrator =>
            /\ DOMAIN index = 0 .. (count - 1)
            /\ \A j \in DOMAIN index, k \in DOMAIN index :
                  index[j] = index[k] => j = k
            /\ Indexed = AttendedSet)
    /\ [](~has_administrator => index = <<>>)
    /\ [][has_administrator =>
            /\ \A k \in DOMAIN index :
                  k \in DOMAIN index' /\ index'[k] = index[k]
            /\ IF last'.op = "attend" /\ last'.err = Ok
               THEN /\ count' = count + 1
                    /\ DOMAIN index' = DOMAIN index \cup {count}
                    /\ index'[count] = last'.args.attendee
               ELSE count' = count /\ index' = index]_vars

\* three attendances on record, in an order other than that of the names
C16_Witness ==
    /\ has_administrator
    /\ count = 3
    /\ index[0] = "u3"
    /\ index[2] = "u2"


\* C17: settlement completes.  From every reachable state with Count > 0 a
\* withdraw of the administrator over a range of width at most 10 that
\* covers [0, Count) succeeds, with no payout refused for lack of contract
\* balance, and leaves every attended attendee refunded.  (With a single
\* covering range; the claim's several consecutive ranges include it.)
C17_SettlementCompletes ==
    [][(/\ has_administrator
        /\ count > 0
        /\ \E h \in RangeBounds :
              /\ h >= count
              /\ ~invalid_range(h, 0)
              /\ withdraw(admin, h, 0))
       => (last'.err = Ok /\ AttendedSet' \subseteq RefundedSet')]_vars


\* C18: no settlement phase is enforced.  After a payout has been made,
\* deposit and attend are accepted exactly as before: attend by the
\* administrator succeeds for every registered attendee not yet attended,
\* and deposit succeeds for every unregistered identity other than the
\* administrator whose debit the token accepts; and a withdraw that follows
\* pays the amount computed from the pool and Count of its own start.  The
\* execution in which two attended attendees are paid different amounts is
\* the one that reaches C18_Witness.
C18_NoSettlementPhase ==
    /\ []((has_administrator /\ PayoutMade) =>
            \A i \in Ids \ {admin} :
               /\ (i \in Registered \ AttendedSet)
                     => attendResult(admin, i).err = Ok
               /\ (/\ i \notin Registered
                   /\ transfer_from_account_to_contract(
                          balance, allowance, i, get_price).ok)
                     => depositResult(i).err = Ok)
    /\ [][(mixed' /\ last'.op = "withdraw" /\ last'.err = Ok) =>
            \A k \in DOMAIN last'.paid :
               last'.paid[k].amount = price + (unclaimed \div count)]_vars

\* deposits or attendances have followed a payout, and two paid attendees
\* have received different amounts
C18_Witness ==
    /\ mixed
    /\ \E i \in RefundedSet, j \in RefundedSet : Received(i) # Received(j)


\* The amount withdraw computes is never below the price: the pool is a sum
\* of fees the token accepted, so it is not negative, and Count is positive
\* whenever the division succeeds.  withdraw has no branch for the other
\* case (lib.rs:174-182).
DistributionAtLeastPrice ==
    (has_administrator /\ distribution_amount.some) =>
        (unclaimed >= 0 /\ distribution_amount.val >= price)


\* C20: in every initialized state the price is positive, since no
\* successful initialize stores a price <= 0; so every attendee fee is
\* positive and the unclaimed pool is never negative.
C20_PricePositive ==
    has_administrator =>
        /\ price > 0
        /\ \A i \in Registered : attendees[i].fee > 0
        /\ unclaimed >= 0

====
